---- MODULE Spec2Model ----
(***************************************************************************)
(* WisdomVault REST backend (Express + MongoDB + Firebase token check).    *)
(* The model follows the latest revision of the server (src/unnamed/       *)
(* part_001). The older revisions (src/unnamed/part_000, src/index.js)     *)
(* register the same routes; where a handler of theirs differs (the        *)
(* add-lesson of src/index.js has no test of title and fullDescription)    *)
(* the model keeps to the latest one.                                      *)
(*                                                                         *)
(* A collection is a sequence of documents in natural (insertion) order;   *)
(* a document is a record; findOne/updateOne/deleteOne act on the first    *)
(* document that matches, insertOne appends, $set merges a patch.          *)
(***************************************************************************)
EXTENDS Integers, Sequences, FiniteSets, TLC

\* ------------------------------------------------------------------ bounds
\* Number of ObjectIds the public-lesson collection may hand out.
MaxIds == 1
\* Number of documents the users collection may hold.
MaxUsers == 2
\* Last value of the wall clock (new Date()).
MaxClock == 1

\* ------------------------------------------------------------- value sets
\* JavaScript undefined / BSON null (the driver stores undefined as null).
NULL == "<null>"

\* Firebase identities: the uid of a verified token; NoCred is a request
\* without a valid bearer token.
Uids == {"u1", "u2"}
NoCred == "none"
Creds == Uids \cup {NoCred}

\* The email claim of the verified token of each identity.
EmailOf == [u \in Uids |-> IF u = "u1" THEN "a@x" ELSE "b@x"]
Emails == {EmailOf[u] : u \in Uids}

\* secure_url that the image host returns for public_id profile_<uid>.
UploadURL == [u \in Uids |-> IF u = "u1" THEN "cdn/profile_u1" ELSE "cdn/profile_u2"]

LessonIds == 1..MaxIds

\* Requests that may be between two awaits at the same time.
MaxReqs == 2
Slots == 1..MaxReqs
Idle == [op |-> "idle"]

VARIABLES
  users,          \* collection "users"
  posts,          \* collection "posts"
  publicLessons,  \* collection "public-lesson"
  myLessons,      \* collection "my-lessons"
  nextId,         \* next ObjectId the driver generates for a lesson
  now,            \* wall clock
  res,            \* the response to the last request: [route, status]
  inflight,       \* requests between two awaits: slot -> handler position and locals
  conn            \* the collection handles: [handles, assigned, start]

vars == <<users, posts, publicLessons, myLessons, nextId, now, res, inflight, conn>>
store == <<users, publicLessons, myLessons>>

\* ---------------------------------------------------------- JS / driver
\* A property of the request body; a missing property is undefined.
Get(body, f) == IF f \in DOMAIN body THEN body[f] ELSE NULL

\* JavaScript truthiness of a string-or-undefined value.
Truthy(v) == v \notin {NULL, ""}

\* a || b
Or(a, b) == IF Truthy(a) THEN a ELSE b

\* { $set: patch } applied to one document.
SetFields(doc, patch) ==
  [f \in (DOMAIN doc) \cup (DOMAIN patch) |->
     IF f \in DOMAIN patch THEN patch[f] ELSE doc[f]]

\* The value a filter key (a field name or the dotted path creator.email)
\* selects in a document; a missing field matches nothing but null.
Field(doc, f) ==
  IF f = "creator.email" THEN doc.creator.email
  ELSE IF f \in DOMAIN doc THEN doc[f] ELSE NULL

\* Whether a document matches a query filter such as { email } or { _id }.
Matches(doc, filter) == \A f \in DOMAIN filter : Field(doc, f) = filter[f]

\* Index of the first document of coll that matches, 0 if none (findOne).
FirstIdx(coll, filter) ==
  LET S == {i \in 1..Len(coll) : Matches(coll[i], filter)}
  IN IF S = {} THEN 0 ELSE CHOOSE i \in S : \A j \in S : i <= j

\* updateOne(filter, { $set: patch })
UpdateOne(coll, filter, patch) ==
  LET i == FirstIdx(coll, filter)
  IN IF i = 0 THEN coll ELSE [coll EXCEPT ![i] = SetFields(@, patch)]

\* deleteOne(filter)
DeleteOne(coll, filter) ==
  LET i == FirstIdx(coll, filter)
  IN IF i = 0 THEN coll
     ELSE SubSeq(coll, 1, i - 1) \o SubSeq(coll, i + 1, Len(coll))

\* deleteMany(filter)
DeleteMany(coll, filter) == SelectSeq(coll, LAMBDA d : ~Matches(d, filter))

\* The _id values of a lesson collection.
Ids(coll) == {coll[i]._id : i \in 1..Len(coll)}

\* The document with _id = id (only used when id \in Ids(coll)).
Doc(coll, id) == coll[FirstIdx(coll, [_id |-> id])]

\* res.status(status).json(...)
Response(route, status) == [route |-> route, status |-> status]

\* The handles once start() has run: usersCollection and the others are
\* assigned, the connect-and-assign sequence has run once.
Connected == [handles |-> TRUE, assigned |-> 1, start |-> "done"]

\* ------------------------------------------------------------ the start
Init ==
  /\ users = << >>
  /\ posts = << >>
  /\ publicLessons = << >>
  /\ myLessons = << >>
  /\ nextId = 1
  /\ now = 0
  /\ res = Response("", 0)
  /\ inflight = [r \in Slots |-> Idle]
  /\ conn = Connected

\* Time passes between requests.
Tick ==
  /\ now < MaxClock
  /\ now' = now + 1
  /\ UNCHANGED <<conn, posts, inflight, users, publicLessons, myLessons, nextId, res>>

\* ======================================================= User Directory
\* Request bodies of POST /users: { name, photoURL }.
SyncBodies ==
  { [name |-> "Al"],
    [name |-> "Anonymous", photoURL |-> "p1"],
    [name |-> "Anonymous", photoURL |-> "p2", role |-> "admin", isPremium |-> TRUE],
    [name |-> ""] }

\* Request bodies of PUT /users/update-profile: { name, photoURL }.
ProfileBodies == { [name |-> "Bo", photoURL |-> "p1"], [name |-> "Anonymous"] }

\* Request bodies of PATCH /users/upgrade/:email: anything the client sends.
UpgradeBodies ==
  { [isPremium |-> TRUE],
    [role |-> "admin"],
    [email |-> "b@x"] }

\* Request bodies of the PATCH /admin/users/... role routes: { role }.
RoleBodies == { [role |-> "admin"], [role |-> "user"], << >> }

\* A newUser that takes role and isPremium from the request body when it has
\* them, which the handler never does.
NewUserFromBody(c, body, t) ==
  [uid |-> c,
   email |-> EmailOf[c],
   name |-> Or(Get(body, "name"), "Anonymous"),
   role |-> Or(Get(body, "role"), "user"),
   isPremium |-> IF "isPremium" \in DOMAIN body THEN body.isPremium ELSE FALSE,
   createdAt |-> t,
   photoURL |-> Or(Get(body, "photoURL"), "")]

\* newUser of POST /users for the verified identity c at time t.
NewUser(c, body, t) ==
  [uid |-> c,
   email |-> EmailOf[c],
   name |-> Or(Get(body, "name"), "Anonymous"),
   role |-> "user",
   isPremium |-> FALSE,
   createdAt |-> t,
   photoURL |-> Or(Get(body, "photoURL"), "")]

\* The $set of POST /users on an account whose name is the placeholder.
NamePatch(body, existingPhotoURL) ==
  [name |-> Get(body, "name"),
   photoURL |-> Or(Get(body, "photoURL"), existingPhotoURL)]

\* The users collection after the handler of POST /users has run for the
\* verified identity c at time t: insertOne when findOne({ uid }) finds
\* nothing, else updateOne when the stored name is the placeholder.
SyncedUsers(coll, t, c, body) ==
  LET existingUser == FirstIdx(coll, [uid |-> c])
  IN IF existingUser = 0
     THEN Append(coll, NewUser(c, body, t))
     ELSE IF coll[existingUser].name = "Anonymous" /\ Truthy(Get(body, "name"))
     THEN UpdateOne(coll, [uid |-> c], NamePatch(body, coll[existingUser].photoURL))
     ELSE coll

\* POST /users
SyncUser(c, body) ==
  /\ UNCHANGED <<conn, posts, inflight, publicLessons, myLessons, nextId, now>>
  /\ IF c = NoCred
     THEN /\ res' = Response("POST /users", 401)
          /\ UNCHANGED users
     ELSE /\ Len(SyncedUsers(users, now, c, body)) <= MaxUsers
          /\ users' = SyncedUsers(users, now, c, body)
          /\ res' = Response("POST /users", 200)

\* The creator snapshot of the lessons of email rewritten with a new name.
RenameCreator(coll, email, name) ==
  [k \in 1..Len(coll) |->
     IF coll[k].creator.email = email
     THEN [coll[k] EXCEPT !.creator = [@ EXCEPT !.name = name]]
     ELSE coll[k]]

\* An update-profile that carries the new name into the creator snapshot of
\* the caller's lessons, which the handler never does.
UpdateProfileAndSnapshots(c, body) ==
  /\ UNCHANGED <<conn, posts, inflight, nextId, now>>
  /\ IF c = NoCred
     THEN /\ res' = Response("PUT /users/update-profile", 401)
          /\ UNCHANGED <<users, publicLessons, myLessons>>
     ELSE /\ users' = UpdateOne(users, [email |-> EmailOf[c]],
                        [name |-> Get(body, "name"), photoURL |-> Get(body, "photoURL")])
          /\ publicLessons' = RenameCreator(publicLessons, EmailOf[c], Get(body, "name"))
          /\ myLessons' = RenameCreator(myLessons, EmailOf[c], Get(body, "name"))
          /\ res' = Response("PUT /users/update-profile", 200)

\* PUT /users/update-profile
UpdateProfile(c, body) ==
  /\ UNCHANGED <<conn, posts, inflight, publicLessons, myLessons, nextId, now>>
  /\ IF c = NoCred
     THEN /\ res' = Response("PUT /users/update-profile", 401)
          /\ UNCHANGED users
     ELSE /\ users' = UpdateOne(users, [email |-> EmailOf[c]],
                        [name |-> Get(body, "name"), photoURL |-> Get(body, "photoURL")])
          /\ res' = Response("PUT /users/update-profile", 200)

\* POST /users/upload-profile (hasFile: the multipart body carries profileImage)
UploadProfile(c, hasFile) ==
  /\ UNCHANGED <<conn, posts, inflight, publicLessons, myLessons, nextId, now>>
  /\ IF c = NoCred
     THEN /\ res' = Response("POST /users/upload-profile", 401)
          /\ UNCHANGED users
     ELSE IF ~hasFile
     THEN /\ res' = Response("POST /users/upload-profile", 400)
          /\ UNCHANGED users
     ELSE /\ users' = UpdateOne(users, [email |-> EmailOf[c]],
                        [photoURL |-> UploadURL[c]])
          /\ res' = Response("POST /users/upload-profile", 200)

\* PATCH /users/upgrade/:email  (no token check, $set of the raw body)
Upgrade(c, email, body) ==
  /\ UNCHANGED <<conn, posts, inflight, publicLessons, myLessons, nextId, now>>
  /\ users' = UpdateOne(users, [email |-> email], body)
  /\ res' = Response("PATCH /users/upgrade/:email", 200)

\* adminUser?.role !== "admin" for the caller's account
NotAdmin(c) ==
  LET adminUser == FirstIdx(users, [email |-> EmailOf[c]])
  IN adminUser = 0 \/ users[adminUser].role # "admin"

\* DELETE /admin/manage-users/:email
ManageDeleteUser(c, email) ==
  /\ UNCHANGED <<conn, posts, inflight, myLessons, nextId, now>>
  /\ IF c = NoCred
     THEN /\ res' = Response("DELETE /admin/manage-users/:email", 401)
          /\ UNCHANGED <<users, publicLessons>>
     ELSE IF NotAdmin(c)
     THEN /\ res' = Response("DELETE /admin/manage-users/:email", 403)
          /\ UNCHANGED <<users, publicLessons>>
     ELSE /\ users' = DeleteOne(users, [email |-> email])
          /\ publicLessons' = DeleteMany(publicLessons, ("creator.email" :> email))
          /\ res' = Response("DELETE /admin/manage-users/:email", 200)

\* PUT /admin/manage-users/:email/promote
ManagePromoteUser(c, email) ==
  /\ UNCHANGED <<conn, posts, inflight, publicLessons, myLessons, nextId, now>>
  /\ IF c = NoCred
     THEN /\ res' = Response("PUT /admin/manage-users/:email/promote", 401)
          /\ UNCHANGED users
     ELSE IF NotAdmin(c)
     THEN /\ res' = Response("PUT /admin/manage-users/:email/promote", 403)
          /\ UNCHANGED users
     ELSE /\ users' = UpdateOne(users, [email |-> email], [role |-> "admin"])
          /\ res' = Response("PUT /admin/manage-users/:email/promote", 200)

\* DELETE /admin/users/:email  (no token check)
AdminDeleteUser(c, email) ==
  /\ UNCHANGED <<conn, posts, inflight, publicLessons, myLessons, nextId, now>>
  /\ users' = DeleteOne(users, [email |-> email])
  /\ res' = Response("DELETE /admin/users/:email", 200)

\* PATCH /admin/users/promote/:email  (no token check)
AdminPromoteUser(c, email, body) ==
  /\ UNCHANGED <<conn, posts, inflight, publicLessons, myLessons, nextId, now>>
  /\ users' = UpdateOne(users, [email |-> email], [role |-> Get(body, "role")])
  /\ res' = Response("PATCH /admin/users/promote/:email", 200)

\* PATCH /admin/users/role/:email  (no token check)
AdminSetRole(c, email, body) ==
  /\ UNCHANGED <<conn, posts, inflight, publicLessons, myLessons, nextId, now>>
  /\ LET role == Get(body, "role")
     IN IF ~Truthy(role)
        THEN /\ res' = Response("PATCH /admin/users/role/:email", 400)
             /\ UNCHANGED users
        ELSE /\ users' = UpdateOne(users, [email |-> email], [role |-> role])
             /\ res' = Response("PATCH /admin/users/role/:email", IF FirstIdx(users, [email |-> email]) = 0 THEN 404 ELSE 200)

\* ========================================================= Content Store
\* Request bodies of POST /dashboard/add-lesson and PUT /dashboard/my-lessons/:id.
LessonBodies ==
  { [title |-> "t1", shortDescription |-> "s1", fullDescription |-> "f1",
     category |-> "c1", emotionalTone |-> "e1", visibility |-> "public",
     accessLevel |-> "free", imageURL |-> "i1", image |-> "i1"],
    [title |-> "t2", fullDescription |-> "f2", visibility |-> "private",
     accessLevel |-> "premium", image |-> "i2", likesCount |-> 9],
    [title |-> "", shortDescription |-> "s3"] }

\* Request bodies of PATCH /admin/lessons/access/:id: { accessLevel }.
AccessBodies ==
  { [accessLevel |-> "premium"], [accessLevel |-> "free"],
    [accessLevel |-> "gold"], << >> }

\* The fields PUT /dashboard/my-lessons/:id copies from the body (updateData).
UpdateFields ==
  {"title", "shortDescription", "fullDescription", "category",
   "emotionalTone", "visibility", "accessLevel", "image"}

\* The lesson document POST /dashboard/add-lesson builds (without _id).
NewLesson(c, body) ==
  LET user == FirstIdx(users, [email |-> EmailOf[c]])
  IN [title |-> Get(body, "title"),
      shortDescription |-> Get(body, "shortDescription"),
      fullDescription |-> Get(body, "fullDescription"),
      category |-> Get(body, "category"),
      emotionalTone |-> Get(body, "emotionalTone"),
      image |-> Or(Get(body, "imageURL"), ""),
      visibility |-> Get(body, "visibility"),
      accessLevel |-> Get(body, "accessLevel"),
      creator |-> [name |-> IF user = 0 THEN "Anonymous" ELSE Or(users[user].name, "Anonymous"),
                   email |-> EmailOf[c],
                   uid |-> c,
                   photo |-> IF user = 0 THEN "" ELSE Or(users[user].photoURL, "")],
      likesCount |-> 0,
      favoritesCount |-> 0,
      comments |-> << >>,
      createdAt |-> now]

\* AddLesson without the test of title and fullDescription.
AddLessonUnvalidated(c, body) ==
  /\ UNCHANGED <<conn, posts, inflight, users, now>>
  /\ IF c = NoCred
     THEN /\ res' = Response("POST /dashboard/add-lesson", 401)
          /\ UNCHANGED <<publicLessons, myLessons, nextId>>
     ELSE /\ nextId <= MaxIds
          /\ LET insertedId == nextId
                 lesson == NewLesson(c, body)
             IN /\ publicLessons' = Append(publicLessons, SetFields(lesson, [_id |-> insertedId]))
                /\ myLessons' = Append(myLessons, SetFields(lesson, [_id |-> insertedId]))
          /\ nextId' = nextId + 1
          /\ res' = Response("POST /dashboard/add-lesson", 200)

\* POST /dashboard/add-lesson
AddLesson(c, body) ==
  /\ UNCHANGED <<conn, posts, inflight, users, now>>
  /\ IF c = NoCred
     THEN /\ res' = Response("POST /dashboard/add-lesson", 401)
          /\ UNCHANGED <<publicLessons, myLessons, nextId>>
     ELSE IF ~Truthy(Get(body, "title")) \/ ~Truthy(Get(body, "fullDescription"))
     THEN /\ res' = Response("POST /dashboard/add-lesson", 400)
          /\ UNCHANGED <<publicLessons, myLessons, nextId>>
     ELSE /\ nextId <= MaxIds
          /\ LET insertedId == nextId
                 lesson == NewLesson(c, body)
             IN /\ publicLessons' = Append(publicLessons, SetFields(lesson, [_id |-> insertedId]))
                /\ myLessons' = Append(myLessons, SetFields(lesson, [_id |-> insertedId]))
          /\ nextId' = nextId + 1
          /\ res' = Response("POST /dashboard/add-lesson", 200)

\* DeleteMyLesson with the deleteOne on public-lesson left out.
DeleteMyLessonOwnerOnly(c, id) ==
  /\ UNCHANGED <<conn, posts, inflight, users, nextId, now>>
  /\ IF c = NoCred
     THEN /\ res' = Response("DELETE /dashboard/my-lessons/:id", 401)
          /\ UNCHANGED <<publicLessons, myLessons>>
     ELSE /\ myLessons' = DeleteOne(myLessons, [_id |-> id])
          /\ UNCHANGED publicLessons
          /\ res' = Response("DELETE /dashboard/my-lessons/:id", 200)

\* DELETE /dashboard/my-lessons/:id
DeleteMyLesson(c, id) ==
  /\ UNCHANGED <<conn, posts, inflight, users, nextId, now>>
  /\ IF c = NoCred
     THEN /\ res' = Response("DELETE /dashboard/my-lessons/:id", 401)
          /\ UNCHANGED <<publicLessons, myLessons>>
     ELSE /\ myLessons' = DeleteOne(myLessons, [_id |-> id])
          /\ publicLessons' = DeleteOne(publicLessons, [_id |-> id])
          /\ res' = Response("DELETE /dashboard/my-lessons/:id", 200)

\* updateData of PUT /dashboard/my-lessons/:id
UpdateData(body) == [f \in UpdateFields |-> Get(body, f)]

\* UpdateMyLesson with $set given the whole request body instead of updateData.
UpdateMyLessonWholeBody(c, id, body) ==
  /\ UNCHANGED <<conn, posts, inflight, users, nextId, now>>
  /\ IF c = NoCred
     THEN /\ res' = Response("PUT /dashboard/my-lessons/:id", 401)
          /\ UNCHANGED <<publicLessons, myLessons>>
     ELSE /\ myLessons' = UpdateOne(myLessons, [_id |-> id], body)
          /\ publicLessons' = UpdateOne(publicLessons, [_id |-> id], body)
          /\ res' = Response("PUT /dashboard/my-lessons/:id", 200)

\* PUT /dashboard/my-lessons/:id
UpdateMyLesson(c, id, body) ==
  /\ UNCHANGED <<conn, posts, inflight, users, nextId, now>>
  /\ IF c = NoCred
     THEN /\ res' = Response("PUT /dashboard/my-lessons/:id", 401)
          /\ UNCHANGED <<publicLessons, myLessons>>
     ELSE /\ myLessons' = UpdateOne(myLessons, [_id |-> id], UpdateData(body))
          /\ publicLessons' = UpdateOne(publicLessons, [_id |-> id], UpdateData(body))
          /\ res' = Response("PUT /dashboard/my-lessons/:id", 200)

\* DELETE /admin/lessons/:id  (no token check)
AdminDeleteLesson(c, id) ==
  /\ UNCHANGED <<conn, posts, inflight, users, nextId, now>>
  /\ publicLessons' = DeleteOne(publicLessons, [_id |-> id])
  /\ myLessons' = DeleteOne(myLessons, [_id |-> id])
  /\ res' = Response("DELETE /admin/lessons/:id", 200)

\* AdminSetAccess with the updateOne on my-lessons left out.
AdminSetAccessPublicOnly(c, id, body) ==
  /\ UNCHANGED <<conn, posts, inflight, users, nextId, now>>
  /\ LET accessLevel == Get(body, "accessLevel")
     IN IF accessLevel \notin {"premium", "free"}
        THEN /\ res' = Response("PATCH /admin/lessons/access/:id", 400)
             /\ UNCHANGED <<publicLessons, myLessons>>
        ELSE /\ publicLessons' = UpdateOne(publicLessons, [_id |-> id], [accessLevel |-> accessLevel])
             /\ UNCHANGED myLessons
             /\ res' = Response("PATCH /admin/lessons/access/:id", 200)

\* AdminSetAccess without the test of accessLevel against ["premium", "free"].
AdminSetAccessAnyLevel(c, id, body) ==
  /\ UNCHANGED <<conn, posts, inflight, users, nextId, now>>
  /\ LET accessLevel == Get(body, "accessLevel")
     IN /\ publicLessons' = UpdateOne(publicLessons, [_id |-> id], [accessLevel |-> accessLevel])
        /\ myLessons' = UpdateOne(myLessons, [_id |-> id], [accessLevel |-> accessLevel])
        /\ res' = Response("PATCH /admin/lessons/access/:id", 200)

\* PATCH /admin/lessons/access/:id  (no token check)
AdminSetAccess(c, id, body) ==
  /\ UNCHANGED <<conn, posts, inflight, users, nextId, now>>
  /\ LET accessLevel == Get(body, "accessLevel")
     IN IF accessLevel \notin {"premium", "free"}
        THEN /\ res' = Response("PATCH /admin/lessons/access/:id", 400)
             /\ UNCHANGED <<publicLessons, myLessons>>
        ELSE /\ publicLessons' = UpdateOne(publicLessons, [_id |-> id], [accessLevel |-> accessLevel])
             /\ myLessons' = UpdateOne(myLessons, [_id |-> id], [accessLevel |-> accessLevel])
             /\ res' = Response("PATCH /admin/lessons/access/:id", 200)

\* =========================================================== read routes
\* The lesson documents the read routes meet. likesCount, favoritesCount and
\* favoritedBy are read by the handlers and written by none of them: the
\* collections are filled by other writers too, so the reads are taken on
\* stores drawn from samples.
SampleLesson(id, name, email, photo, vis, likes, favs, cat, t) ==
  [_id |-> id, title |-> "t1", shortDescription |-> "s1", fullDescription |-> "f1",
   category |-> cat, emotionalTone |-> "e1", image |-> "", visibility |-> vis,
   accessLevel |-> "free",
   creator |-> [name |-> name, email |-> email, uid |-> "u1", photo |-> photo],
   likesCount |-> likes, favoritesCount |-> favs, comments |-> << >>, createdAt |-> t]

\* A response that carries a JSON body.
Reply(route, status, body) == [route |-> route, status |-> status, body |-> body]

RECURSIVE SumSeq(_)
\* $sum over the values of a group.
SumSeq(s) == IF s = << >> THEN 0 ELSE Head(s) + SumSeq(Tail(s))

\* The values of field f of the documents of coll, in collection order.
Column(coll, f) == [i \in 1..Len(coll) |-> coll[i][f]]

RECURSIVE FirstSeen(_, _)
\* The distinct values of a sequence in order of first appearance.
FirstSeen(s, seen) ==
  IF s = << >> THEN << >>
  ELSE IF Head(s) \in seen THEN FirstSeen(Tail(s), seen)
  ELSE <<Head(s)>> \o FirstSeen(Tail(s), seen \cup {Head(s)})

\* $limit of GET /top-contributors.
TopLimit == 7

\* A $match stage that lets every lesson through.
MatchEverything(coll) == SelectSeq(coll, LAMBDA d : TRUE)

\* { $match: { visibility: "public" } }
MatchPublic(coll) == SelectSeq(coll, LAMBDA d : d.visibility = "public")

\* One $group row of GET /top-contributors, for creator name n, with its score.
ContributorRowDoubleLikes(matched, n) ==
  LET docs == SelectSeq(matched, LAMBDA d : d.creator.name = n)
      totalLessons == Len(docs)
      totalLikes == SumSeq(Column(docs, "likesCount"))
      totalFavorites == SumSeq(Column(docs, "favoritesCount"))
  IN [_id |-> n, photo |-> docs[1].creator.photo,
      totalLessons |-> totalLessons, totalLikes |-> totalLikes,
      totalFavorites |-> totalFavorites,
      score |-> totalLessons * 5 + totalLikes * 2 + totalFavorites * 2]

\* $group by "$creator.name" followed by $addFields score.
ContributorRow(matched, n) ==
  LET docs == SelectSeq(matched, LAMBDA d : d.creator.name = n)
      totalLessons == Len(docs)
      totalLikes == SumSeq(Column(docs, "likesCount"))
      totalFavorites == SumSeq(Column(docs, "favoritesCount"))
  IN [_id |-> n, photo |-> docs[1].creator.photo,
      totalLessons |-> totalLessons, totalLikes |-> totalLikes,
      totalFavorites |-> totalFavorites,
      score |-> totalLessons * 5 + totalLikes * 1 + totalFavorites * 2]

\* The rows after $match, $group and $addFields, in order of first appearance.
ContributorRows(coll) ==
  LET matched == MatchPublic(coll)
      names == FirstSeen([i \in 1..Len(matched) |-> matched[i].creator.name], {})
  IN [k \in 1..Len(names) |-> ContributorRow(matched, names[k])]

\* The sequence s in reverse.
Reverse(s) == [i \in 1..Len(s) |-> s[Len(s) + 1 - i]]

RECURSIVE SortByScoreDesc(_)
\* { $sort: { score: -1 } }: rows of equal score keep their relative order.
SortByScoreDesc(rows) ==
  IF rows = << >> THEN << >>
  ELSE LET best == CHOOSE i \in 1..Len(rows) :
                     /\ \A j \in 1..Len(rows) : rows[j].score <= rows[i].score
                     /\ \A j \in 1..(i - 1) : rows[j].score < rows[i].score
       IN <<rows[best]>> \o
          SortByScoreDesc(SubSeq(rows, 1, best - 1) \o SubSeq(rows, best + 1, Len(rows)))

\* { $limit: n }
Limit(rows, n) == SubSeq(rows, 1, IF Len(rows) < n THEN Len(rows) ELSE n)

\* GET /top-contributors with the $sort stage left out.
TopContributorsUnsorted(reversed) ==
  /\ LET rows == ContributorRows(publicLessons)
         unsorted == IF reversed THEN Reverse(rows) ELSE rows
     IN res' = Reply("GET /top-contributors", 200, Limit(unsorted, TopLimit))
  /\ UNCHANGED <<conn, posts, users, publicLessons, myLessons, nextId, now, inflight>>

\* GET /top-contributors. $sort does not fix the order of rows of equal
\* score: they come in their $group order or in its reverse.
TopContributors(reversed) ==
  /\ LET rows == ContributorRows(publicLessons)
         sorted == SortByScoreDesc(IF reversed THEN Reverse(rows) ELSE rows)
     IN res' = Reply("GET /top-contributors", 200, Limit(sorted, TopLimit))
  /\ UNCHANGED <<conn, posts, users, publicLessons, myLessons, nextId, now, inflight>>

\* ---------------------------------------------- GET /dashboard/overview
\* Time is counted in half days since the epoch.
DayOf(t) == t \div 2

\* new Date(new Date().setDate(new Date().getDate() - 7))
WeekBefore(t) == t - 14

\* $dayOfWeek: 1 for Sunday .. 7 for Saturday; day 0 of the epoch is a Thursday.
DayOfWeek(t) == ((DayOf(t) + 4) % 7) + 1

\* { $match: { "favoritedBy.email": email } }
FavoritedBy(doc, email) ==
  "favoritedBy" \in DOMAIN doc /\ \E m \in doc.favoritedBy : m.email = email

\* find({ "creator.email": email })
LessonsOf(coll, email) == SelectSeq(coll, LAMBDA d : d.creator.email = email)

RECURSIVE SortByCreatedDesc(_)
\* sort({ createdAt: -1 }): documents of equal createdAt keep their order.
SortByCreatedDesc(docs) ==
  IF docs = << >> THEN << >>
  ELSE LET latest == CHOOSE i \in 1..Len(docs) :
                       /\ \A j \in 1..Len(docs) : docs[j].createdAt <= docs[i].createdAt
                       /\ \A j \in 1..(i - 1) : docs[j].createdAt < docs[i].createdAt
       IN <<docs[latest]>> \o
          SortByCreatedDesc(SubSeq(docs, 1, latest - 1) \o SubSeq(docs, latest + 1, Len(docs)))

\* .project({ title: 1, category: 1, createdAt: 1 })
Project(doc) ==
  [_id |-> doc._id, title |-> doc.title, category |-> doc.category, createdAt |-> doc.createdAt]

\* recentLessons of GET /dashboard/overview
RecentLessons(coll, email) ==
  LET found == Limit(SortByCreatedDesc(LessonsOf(coll, email)), 5)
  IN [k \in 1..Len(found) |-> Project(found[k])]

\* weeklyStats with the "creator.email" condition left out of its $match.
WeeklyStatsAllOwners(coll, email, t) ==
  LET matched == SelectSeq(coll, LAMBDA d : d.createdAt >= WeekBefore(t))
      Count(w) == Len(SelectSeq(matched, LAMBDA d : DayOfWeek(d.createdAt) = w))
      days == SelectSeq(<<1, 2, 3, 4, 5, 6, 7>>, LAMBDA w : Count(w) > 0)
  IN [k \in 1..Len(days) |-> [_id |-> days[k], count |-> Count(days[k])]]

\* weeklyStats of GET /dashboard/overview: $match, $group by $dayOfWeek, $sort by _id.
WeeklyStats(coll, email, t) ==
  LET matched == SelectSeq(coll, LAMBDA d : d.creator.email = email /\ d.createdAt >= WeekBefore(t))
      Count(w) == Len(SelectSeq(matched, LAMBDA d : DayOfWeek(d.createdAt) = w))
      days == SelectSeq(<<1, 2, 3, 4, 5, 6, 7>>, LAMBDA w : Count(w) > 0)
  IN [k \in 1..Len(days) |-> [_id |-> days[k], count |-> Count(days[k])]]

\* GET /dashboard/overview
Overview(c) ==
  /\ IF c = NoCred
     THEN res' = Response("GET /dashboard/overview", 401)
     ELSE LET email == EmailOf[c]
          IN res' = Reply("GET /dashboard/overview", 200,
               [totalLessons |-> Len(LessonsOf(publicLessons, email)),
                totalFavorites |-> Len(SelectSeq(publicLessons, LAMBDA d : FavoritedBy(d, email))),
                recentLessons |-> RecentLessons(publicLessons, email),
                weeklyStats |-> WeeklyStats(publicLessons, email, now)])
  /\ UNCHANGED <<conn, posts, users, publicLessons, myLessons, nextId, now, inflight>>

\* GET /dashboard/my-lessons
GetMyLessons(c) ==
  /\ IF c = NoCred
     THEN res' = Response("GET /dashboard/my-lessons", 401)
     ELSE res' = Reply("GET /dashboard/my-lessons", 200,
                       SortByCreatedDesc(LessonsOf(myLessons, EmailOf[c])))
  /\ UNCHANGED <<conn, posts, users, publicLessons, myLessons, nextId, now, inflight>>

OverviewReq == \E c \in Creds : Overview(c)
GetMyLessonsReq == \E c \in Creds : GetMyLessons(c)

\* ============================================================ token check
\* The Authorization headers a request may carry, as authHeader.split(" "):
\* none, a scheme other than Bearer, a bearer token Firebase rejects, and the
\* token of an identity.
Headers ==
  { << >>,
    <<"Basic", "u1">>,
    <<"Bearer", "bad">>,
    <<"Bearer", "u1">> }

\* authHeader?.startsWith("Bearer ")
StartsWithBearer(h) == Len(h) > 0 /\ h[1] = "Bearer"

\* A token check that takes the identity from the token without asking
\* Firebase whether the token is good.
VerifyWithoutFirebase(h) ==
  IF ~StartsWithBearer(h) THEN NoCred
  ELSE IF h[2] \in Uids THEN h[2] ELSE "u1"

\* verifyFirebaseToken: the identity req.decoded of the request, NoCred when
\* the middleware answers 401 (no header, no "Bearer " prefix, verifyIdToken throws).
VerifyFirebaseToken(h) ==
  IF ~StartsWithBearer(h) THEN NoCred
  ELSE IF h[2] \in Uids THEN h[2] ELSE NoCred

\* ========================================================= account lookups
\* GET /users/status/:email
GetStatus(c, email) ==
  /\ IF c = NoCred
     THEN res' = Response("GET /users/status", 401)
     ELSE LET i == FirstIdx(users, [email |-> email])
          IN IF i = 0
             THEN res' = Response("GET /users/status", 404)
             ELSE res' = Reply("GET /users/status", 200,
                               [role |-> users[i].role, isPremium |-> users[i].isPremium])
  /\ UNCHANGED <<conn, posts, users, publicLessons, myLessons, nextId, now, inflight>>

\* GET /users/profile/:email
GetProfile(c, email) ==
  /\ IF c = NoCred
     THEN res' = Response("GET /users/profile", 401)
     ELSE LET i == FirstIdx(users, [email |-> email])
          IN IF i = 0
             THEN res' = Response("GET /users/profile", 404)
             ELSE res' = Reply("GET /users/profile", 200,
                    [name |-> users[i].name,
                     email |-> users[i].email,
                     photoURL |-> Or(users[i].photoURL, ""),
                     isPremium |-> users[i].isPremium,
                     lessonsCreated |-> Len(LessonsOf(publicLessons, email)),
                     lessonsSaved |-> Len(SelectSeq(publicLessons, LAMBDA d : FavoritedBy(d, email)))])
  /\ UNCHANGED <<conn, posts, users, publicLessons, myLessons, nextId, now, inflight>>

\* =================================================================== posts
\* Number of documents the posts collection may hold.
MaxPosts == 2

\* Request bodies of POST /add-post; the second one brings its own
\* authorEmail and createdAt.
PostBodies ==
  { [text |-> "x1"],
    [text |-> "x2", authorEmail |-> "b@x", createdAt |-> 99] }

\* A post that keeps the authorEmail and createdAt of the request body.
PostFromBody(c, body, t) ==
  SetFields([authorEmail |-> EmailOf[c], createdAt |-> t], body)

\* const post = { ...req.body, authorEmail: req.decoded.email, createdAt: new Date() }
NewPost(c, body, t) ==
  SetFields(body, [authorEmail |-> EmailOf[c], createdAt |-> t])

\* POST /add-post
AddPost(c, body) ==
  /\ IF c = NoCred
     THEN /\ res' = Response("POST /add-post", 401)
          /\ UNCHANGED posts
     ELSE /\ Len(posts) < MaxPosts
          /\ posts' = Append(posts, NewPost(c, body, now))
          /\ res' = Response("POST /add-post", 200)
  /\ UNCHANGED <<conn, inflight, users, publicLessons, myLessons, nextId, now>>

\* GET /posts
GetPosts ==
  /\ res' = Reply("GET /posts", 200, posts)
  /\ UNCHANGED <<conn, posts, users, publicLessons, myLessons, nextId, now, inflight>>

\* ============================================================ admin reads
\* countDocuments({ createdAt: { $gte: oneWeekAgo } })
WeeklyCount(coll, t) == Len(SelectSeq(coll, LAMBDA d : d.createdAt >= WeekBefore(t)))

\* countDocuments({ isReported: true })
ReportedCount(coll) ==
  Len(SelectSeq(coll, LAMBDA d : "isReported" \in DOMAIN d /\ d.isReported = TRUE))

\* Admin stats whose totalLessons counts the lessons of the trailing week only.
DashboardStatsOfWeek(us, lessons, t) ==
  [totalUsers |-> Len(us),
   totalLessons |-> WeeklyCount(lessons, t),
   reportedLessons |-> ReportedCount(lessons),
   weeklyGrowth |-> <<"+", WeeklyCount(lessons, t)>>]

\* The body of GET /admin/dashboard-stats; weeklyGrowth is the string `+${weeklyCount}`.
DashboardStats(us, lessons, t) ==
  [totalUsers |-> Len(us),
   totalLessons |-> Len(lessons),
   reportedLessons |-> ReportedCount(lessons),
   weeklyGrowth |-> <<"+", WeeklyCount(lessons, t)>>]

\* GET /admin/dashboard-stats
AdminDashboardStats ==
  /\ res' = Reply("GET /admin/dashboard-stats", 200, DashboardStats(users, publicLessons, now))
  /\ UNCHANGED <<conn, posts, users, publicLessons, myLessons, nextId, now, inflight>>

\* .project(fields): the named fields a document has.
ProjectFields(doc, fields) == [f \in fields \cap DOMAIN doc |-> doc[f]]

\* find().sort({ createdAt: -1 }).project(fields)
Listing(coll, fields) ==
  LET found == SortByCreatedDesc(coll)
  IN [k \in 1..Len(found) |-> ProjectFields(found[k], fields)]

\* GET /admin/recent-users
RecentUsers ==
  /\ res' = Reply("GET /admin/recent-users", 200,
                  Limit(Listing(users, {"name", "email", "createdAt"}), 5))
  /\ UNCHANGED <<conn, posts, users, publicLessons, myLessons, nextId, now, inflight>>

\* GET /admin/recent-lessons
AdminRecentLessons ==
  /\ res' = Reply("GET /admin/recent-lessons", 200,
                  Limit(Listing(publicLessons, {"_id", "title", "visibility", "createdAt"}), 5))
  /\ UNCHANGED <<conn, posts, users, publicLessons, myLessons, nextId, now, inflight>>

\* GET /admin/manage-users
ManageUsers(c) ==
  /\ IF c = NoCred
     THEN res' = Response("GET /admin/manage-users", 401)
     ELSE IF NotAdmin(c)
     THEN res' = Response("GET /admin/manage-users", 403)
     ELSE res' = Reply("GET /admin/manage-users", 200,
                       Listing(users, {"name", "email", "role"}))
  /\ UNCHANGED <<conn, posts, users, publicLessons, myLessons, nextId, now, inflight>>

\* GET /admin/manage-users-test
ManageUsersTest ==
  /\ res' = Reply("GET /admin/manage-users-test", 200,
                  Listing(users, {"name", "email", "role", "createdAt"}))
  /\ UNCHANGED <<conn, posts, users, publicLessons, myLessons, nextId, now, inflight>>

\* GET /admin/manage-lessons
ManageLessons ==
  /\ res' = Reply("GET /admin/manage-lessons", 200,
                  Listing(publicLessons, {"_id", "title", "category", "visibility", "accessLevel", "createdAt"}))
  /\ UNCHANGED <<conn, posts, users, publicLessons, myLessons, nextId, now, inflight>>

\* GET /lessons
GetLessons ==
  /\ res' = Reply("GET /lessons", 200, publicLessons)
  /\ UNCHANGED <<conn, posts, users, publicLessons, myLessons, nextId, now, inflight>>

\* ======================================================== specifications
\* Requests, one handler at a time, no store failure. The routes without a
\* token check never read the credential: the caller without one stands for all.
SyncUserReq == \E c \in Creds, body \in SyncBodies : SyncUser(c, body)
UpdateProfileReq == \E c \in Creds, body \in ProfileBodies : UpdateProfile(c, body)
UploadProfileReq == \E c \in Creds, hasFile \in BOOLEAN : UploadProfile(c, hasFile)
UpgradeReq == \E c \in {NoCred}, email \in Emails, body \in UpgradeBodies : Upgrade(c, email, body)
ManageDeleteUserReq == \E c \in Creds, email \in Emails : ManageDeleteUser(c, email)
ManagePromoteUserReq == \E c \in Creds, email \in Emails : ManagePromoteUser(c, email)
AdminDeleteUserReq == \E c \in {NoCred}, email \in Emails : AdminDeleteUser(c, email)
AdminPromoteUserReq == \E c \in {NoCred}, email \in Emails, body \in RoleBodies : AdminPromoteUser(c, email, body)
AdminSetRoleReq == \E c \in {NoCred}, email \in Emails, body \in RoleBodies : AdminSetRole(c, email, body)
AddLessonReq == \E c \in Creds, body \in LessonBodies : AddLesson(c, body)
DeleteMyLessonReq == \E c \in Creds, id \in LessonIds : DeleteMyLesson(c, id)
UpdateMyLessonReq == \E c \in Creds, id \in LessonIds, body \in LessonBodies : UpdateMyLesson(c, id, body)
AdminDeleteLessonReq == \E c \in {NoCred}, id \in LessonIds : AdminDeleteLesson(c, id)
AdminSetAccessReq == \E c \in {NoCred}, id \in LessonIds, body \in AccessBodies : AdminSetAccess(c, id, body)

\* Account sync, the profile routes, the upgrade route and account removal.
NextUsers ==
  \/ SyncUserReq
  \/ UpdateProfileReq
  \/ UploadProfileReq
  \/ UpgradeReq
  \/ AdminDeleteUserReq

SpecUsers == Init /\ [][NextUsers]_vars

\* A first sync with a real name, and the lesson operations of the Content Store.
SyncNamedReq == \E c \in Creds : SyncUser(c, [name |-> "Al"])

NextLessons ==
  \/ SyncNamedReq
  \/ AddLessonReq
  \/ DeleteMyLessonReq
  \/ UpdateMyLessonReq
  \/ AdminDeleteLessonReq
  \/ AdminSetAccessReq

SpecLessons == Init /\ [][NextLessons]_vars

\* ------------------------------------------------- a store call that throws
\* The store calls of POST /dashboard/add-lesson, in order.
AddLessonCalls == {"findOne", "insertPublic", "insertMy"}

\* POST /dashboard/add-lesson when the store call failAt rejects: the catch
\* block answers 500; what was written before the failing call stays written.
AddLessonFailing(c, body, failAt) ==
  /\ UNCHANGED <<conn, posts, inflight, users, now>>
  /\ c # NoCred
  /\ Truthy(Get(body, "title")) /\ Truthy(Get(body, "fullDescription"))
  /\ IF failAt = "insertMy"
     THEN /\ nextId <= MaxIds
          /\ publicLessons' = Append(publicLessons, SetFields(NewLesson(c, body), [_id |-> nextId]))
          /\ nextId' = nextId + 1
          /\ UNCHANGED myLessons
     ELSE UNCHANGED <<publicLessons, myLessons, nextId>>
  /\ res' = Response("POST /dashboard/add-lesson", 500)

AddLessonFailingReq ==
  \E c \in Creds, body \in LessonBodies, failAt \in AddLessonCalls : AddLessonFailing(c, body, failAt)

NextFail ==
  \/ SyncNamedReq
  \/ AddLessonReq
  \/ AddLessonFailingReq
  \/ DeleteMyLessonReq
  \/ Tick

SpecFail == Init /\ [][NextFail]_vars

\* ------------------------------------------- POST /users, await by await
\* The handler up to the end of await usersCollection.findOne({ uid }).
SyncBegin(r, c, body) ==
  /\ inflight[r] = Idle
  /\ c # NoCred
  /\ LET existingUser == FirstIdx(users, [uid |-> c])
     IN inflight' = [inflight EXCEPT ![r] =
          [op |-> "sync", uid |-> c, body |-> body,
           found |-> existingUser # 0,
           name |-> IF existingUser = 0 THEN NULL ELSE users[existingUser].name,
           photoURL |-> IF existingUser = 0 THEN NULL ELSE users[existingUser].photoURL]]
  /\ UNCHANGED <<conn, posts, users, publicLessons, myLessons, nextId, now, res>>

\* The rest of the handler: insertOne or updateOne on what findOne returned.
SyncFinish(r) ==
  /\ inflight[r].op = "sync"
  /\ LET q == inflight[r]
     IN IF ~q.found
        THEN /\ Len(users) < MaxUsers
             /\ users' = Append(users, NewUser(q.uid, q.body, now))
        ELSE IF q.name = "Anonymous" /\ Truthy(Get(q.body, "name"))
        THEN users' = UpdateOne(users, [uid |-> q.uid], NamePatch(q.body, q.photoURL))
        ELSE UNCHANGED users
  /\ inflight' = [inflight EXCEPT ![r] = Idle]
  /\ res' = Response("POST /users", 200)
  /\ UNCHANGED <<conn, posts, publicLessons, myLessons, nextId, now>>

SyncBeginReq == \E r \in Slots, c \in Creds, body \in SyncBodies : SyncBegin(r, c, body)
SyncFinishReq == \E r \in Slots : SyncFinish(r)

NextConc ==
  \/ SyncBeginReq
  \/ SyncFinishReq
  \/ AdminDeleteUserReq

SpecConc == Init /\ [][NextConc]_vars

\* ------------------------------------ accounts, lessons and the admin routes
NextAdmin ==
  \/ SyncNamedReq
  \/ AddLessonReq
  \/ ManageDeleteUserReq
  \/ ManagePromoteUserReq
  \/ AdminDeleteUserReq
  \/ AdminPromoteUserReq
  \/ AdminSetRoleReq
  \/ AdminDeleteLessonReq
  \/ AdminSetAccessReq

SpecAdmin == Init /\ [][NextAdmin]_vars

\* ----------------------------------------------- GET /top-contributors
\* The number of creator names of the sampled stores (one more than TopLimit).
MaxNames == 8
AllNames == <<"n1", "n2", "n3", "n4", "n5", "n6", "n7", "n8", "n9", "n10">>

\* What a sampled lesson of a creator varies in.
Stub(vis, likes, favs, photo) == [vis |-> vis, likes |-> likes, favs |-> favs, photo |-> photo]

\* The lessons of the i-th creator name in its k-th sample: none, one public,
\* two public, private only, private before public.
Profile(i, k) ==
  IF i % 2 = 1
  THEN CASE k = 0 -> << >>
         [] k = 1 -> <<Stub("public", i, 1, "a")>>
         [] OTHER -> <<Stub("public", 1, 2, "a"), Stub("public", 0, 0, "b")>>
  ELSE CASE k = 0 -> <<Stub("private", 9, 9, "x")>>
         [] k = 1 -> <<Stub("private", 9, 9, "x"), Stub("public", 0, 0, "b")>>
         [] OTHER -> <<Stub("public", i, 0, "a")>>

RECURSIVE ProfilesFrom(_, _)
\* The sampled lessons of the creator names i..MaxNames, each with its name.
ProfilesFrom(kinds, i) ==
  IF i > MaxNames THEN << >>
  ELSE LET p == Profile(i, kinds[i])
       IN [j \in 1..Len(p) |-> [name |-> AllNames[i], stub |-> p[j]]] \o ProfilesFrom(kinds, i + 1)

\* The public-lesson collection of a sample.
TopStore(kinds, flipped) ==
  LET ps == IF flipped THEN Reverse(ProfilesFrom(kinds, 1)) ELSE ProfilesFrom(kinds, 1)
  IN [j \in 1..Len(ps) |->
        SampleLesson(j, ps[j].name, "a@x", ps[j].stub.photo, ps[j].stub.vis,
                     ps[j].stub.likes, ps[j].stub.favs, "c1", 0)]

InitTop ==
  /\ \E kinds \in [1..MaxNames -> 0..2], flipped \in BOOLEAN :
       /\ publicLessons = TopStore(kinds, flipped)
       /\ myLessons = TopStore(kinds, flipped)
       /\ nextId = Len(TopStore(kinds, flipped)) + 1
  /\ users = << >>
  /\ posts = << >>
  /\ now = 0
  /\ res = Response("", 0)
  /\ inflight = [r \in Slots |-> Idle]
  /\ conn = Connected

TopContributorsReq == \E reversed \in BOOLEAN : TopContributors(reversed)

NextTop == TopContributorsReq

SpecTop == InitTop /\ [][NextTop]_vars

\* The number of lessons of a sampled week.
MaxWeekLessons == 3

\* How many half days before the call a sampled lesson was created: the same
\* half day, 1, 3 and 6.5 days, exactly 7 days, 7.5 days.
Ages == {0, 2, 6, 13, 14, 15}

\* The public-lesson collection of a sampled week at time t.
WeekStore(picks, t) ==
  [j \in 1..Len(picks) |->
     SampleLesson(j, "Al", picks[j].email, "", "public", 0, 0, "c1", t - picks[j].age)]

InitWeek ==
  /\ now \in {40, 41}
  /\ \E picks \in [1..MaxWeekLessons -> [email : Emails, age : Ages]] :
       /\ publicLessons = WeekStore(picks, now)
       /\ myLessons = WeekStore(picks, now)
  /\ nextId = MaxWeekLessons + 1
  /\ users = << >>
  /\ posts = << >>
  /\ res = Response("", 0)
  /\ inflight = [r \in Slots |-> Idle]
  /\ conn = Connected

NextWeek == OverviewReq

SpecWeek == InitWeek /\ [][NextWeek]_vars

\* The dashboard reads among the routes that fill and empty the two indexes.
NextOverview ==
  \/ SyncNamedReq
  \/ AdminSetRoleReq
  \/ AddLessonReq
  \/ ManageDeleteUserReq
  \/ OverviewReq
  \/ GetMyLessonsReq

SpecOverview == Init /\ [][NextOverview]_vars

\* ------------------------------------------------ GET /community-stats
\* GET /community-stats with totalFavorites summed over the public lessons only.
CommunityStatsPublicFavorites ==
  /\ res' = Reply("GET /community-stats", 200,
       [totalLessons |-> Len(MatchPublic(publicLessons)),
        totalUsers |-> Len(users),
        totalFavorites |-> SumSeq(Column(MatchPublic(publicLessons), "favoritesCount")),
        totalCategories |-> Cardinality({publicLessons[i].category : i \in 1..Len(publicLessons)})])
  /\ UNCHANGED <<conn, posts, users, publicLessons, myLessons, nextId, now, inflight>>

\* GET /community-stats
CommunityStats ==
  /\ res' = Reply("GET /community-stats", 200,
       [totalLessons |-> Len(MatchPublic(publicLessons)),
        totalUsers |-> Len(users),
        totalFavorites |-> SumSeq(Column(publicLessons, "favoritesCount")),
        totalCategories |-> Cardinality({publicLessons[i].category : i \in 1..Len(publicLessons)})])
  /\ UNCHANGED <<conn, posts, users, publicLessons, myLessons, nextId, now, inflight>>

\* The number of lessons of a sampled community.
MaxStatLessons == 3

\* The public-lesson collection of a sampled community.
StatStore(picks) ==
  [j \in 1..Len(picks) |->
     SampleLesson(j, "Al", "a@x", "", picks[j].vis, 0, picks[j].favs, picks[j].cat, 0)]

\* The users collection after the first n of the callers have synced.
StatUsers(n) ==
  SubSeq(<<NewUser("u1", [name |-> "Al"], 0), NewUser("u2", [name |-> "Al"], 0)>>, 1, n)

InitStats ==
  /\ \E n \in 0..MaxStatLessons :
       \E picks \in [1..n -> [vis : {"public", "private"}, favs : {0, 2}, cat : {"c1", "c2", NULL}]] :
         /\ publicLessons = StatStore(picks)
         /\ myLessons = StatStore(picks)
         /\ nextId = n + 1
  /\ \E n \in 0..2 : users = StatUsers(n)
  /\ posts = << >>
  /\ now = 0
  /\ res = Response("", 0)
  /\ inflight = [r \in Slots |-> Idle]
  /\ conn = Connected

NextStats == CommunityStats

SpecStats == InitStats /\ [][NextStats]_vars

\* ------------------------------------------- connectDB and start()
\* The process as the module is loaded: no handle assigned, start() not yet run.
NotConnected == [handles |-> FALSE, assigned |-> 0, start |-> "init"]

InitConn ==
  /\ users = << >>
  /\ posts = << >>
  /\ publicLessons = << >>
  /\ myLessons = << >>
  /\ nextId = 1
  /\ now = 0
  /\ res = Response("", 0)
  /\ inflight = [r \in Slots |-> Idle]
  /\ conn = NotConnected

\* A request arrives on a free slot and enters the connectDB middleware.
Arrive(r) ==
  /\ inflight[r].op \in {"idle", "answered"}
  /\ inflight' = [inflight EXCEPT ![r] = [op |-> "connectDB", failed |-> FALSE]]
  /\ UNCHANGED <<users, publicLessons, myLessons, nextId, now, res, conn, posts>>

\* connectDB up to its await: if (!usersCollection) client.connect(), else next().
ConnectDBCheck(r) ==
  /\ inflight[r].op = "connectDB"
  /\ inflight' = [inflight EXCEPT ![r].op = IF conn.handles THEN "handler" ELSE "connecting"]
  /\ UNCHANGED <<users, publicLessons, myLessons, nextId, now, res, conn, posts>>

\* client.connect() resolves: the four handles are assigned, then next().
ConnectDBAssign(r) ==
  /\ inflight[r].op = "connecting"
  /\ conn' = [conn EXCEPT !.handles = TRUE, !.assigned = conn.assigned + 1]
  /\ inflight' = [inflight EXCEPT ![r].op = "handler"]
  /\ UNCHANGED <<users, publicLessons, myLessons, nextId, now, res, posts>>

\* client.connect() rejects. connectDB has no try/catch: the promise of the
\* async middleware rejects. A router that forwards rejected promises answers
\* 500 from its default error handler; one that does not leaves the request
\* unanswered and the rejection unhandled.
ConnectDBReject(r, forwarded) ==
  /\ inflight[r].op = "connecting"
  /\ IF forwarded
     THEN /\ inflight' = [inflight EXCEPT ![r] = [op |-> "answered", failed |-> TRUE, status |-> 500]]
          /\ res' = Response("connectDB", 500)
     ELSE /\ inflight' = [inflight EXCEPT ![r] = [op |-> "unanswered", failed |-> TRUE]]
          /\ UNCHANGED res
  /\ UNCHANGED <<users, publicLessons, myLessons, nextId, now, conn, posts>>

\* A route handler: its body is one try block whose catch answers 500.
Handle(r, storeFails) ==
  /\ inflight[r].op = "handler"
  /\ LET status == IF storeFails THEN 500 ELSE 200
     IN /\ inflight' = [inflight EXCEPT ![r] = [op |-> "answered", failed |-> storeFails, status |-> status]]
        /\ res' = Response("handler", status)
  /\ UNCHANGED <<users, publicLessons, myLessons, nextId, now, conn, posts>>

\* start() up to await client.connect().
StartBegin ==
  /\ conn.start = "init"
  /\ conn' = [conn EXCEPT !.start = "connecting"]
  /\ UNCHANGED <<users, publicLessons, myLessons, nextId, now, res, inflight, posts>>

\* start() after the await: the handles are assigned, or the catch logs the failure.
StartFinish(connected) ==
  /\ conn.start = "connecting"
  /\ conn' = IF connected
             THEN [handles |-> TRUE, assigned |-> conn.assigned + 1, start |-> "done"]
             ELSE [conn EXCEPT !.start = "failed"]
  /\ UNCHANGED <<users, publicLessons, myLessons, nextId, now, res, inflight, posts>>

\* What the event loop runs next for the request on slot r.
RequestStep(r) ==
  \/ ConnectDBCheck(r)
  \/ ConnectDBAssign(r)
  \/ \E forwarded \in BOOLEAN : ConnectDBReject(r, forwarded)
  \/ \E storeFails \in BOOLEAN : Handle(r, storeFails)

ArriveReq == \E r \in Slots : Arrive(r)
RequestStepReq == \E r \in Slots : RequestStep(r)
StartFinishReq == \E connected \in BOOLEAN : StartFinish(connected)

NextConn ==
  \/ ArriveReq
  \/ RequestStepReq
  \/ StartBegin
  \/ StartFinishReq

SpecConn == InitConn /\ [][NextConn]_vars

\* The event loop runs every continuation that is ready.
SpecConnLive ==
  /\ InitConn /\ [][NextConn]_vars
  /\ \A r \in Slots : WF_vars(RequestStep(r))
  /\ WF_vars(StartBegin \/ StartFinishReq)

\* ------------------------------------------------ the routes behind the token check
\* One request to a route registered with verifyFirebaseToken, made by the
\* identity c the middleware hands on (NoCred: the middleware answered 401).
GuardedRoute(c) ==
  \/ SyncUser(c, [name |-> "Al"])
  \/ UpdateProfile(c, [name |-> "Al"])
  \/ UploadProfile(c, FALSE)
  \/ \E email \in Emails : GetStatus(c, email)
  \/ \E email \in Emails : GetProfile(c, email)
  \/ AddLesson(c, [title |-> "t1", fullDescription |-> "f1"])
  \/ GetMyLessons(c)
  \/ \E id \in LessonIds : DeleteMyLesson(c, id)
  \/ \E id \in LessonIds : UpdateMyLesson(c, id, [title |-> "t2"])
  \/ ManageUsers(c)
  \/ \E email \in Emails : ManageDeleteUser(c, email)
  \/ \E email \in Emails : ManagePromoteUser(c, email)
  \/ Overview(c)
  \/ AddPost(c, [text |-> "x1"])

\* A request with Authorization header h to one of these routes.
GuardedReq == \E h \in Headers : GuardedRoute(VerifyFirebaseToken(h))

NextToken ==
  \/ GuardedReq
  \/ AdminSetRoleReq

SpecToken == Init /\ [][NextToken]_vars

\* ------------------------------------------------ the User Directory by email
GetStatusReq == \E c \in Creds, email \in Emails : GetStatus(c, email)
GetProfileReq == \E c \in Creds, email \in Emails : GetProfile(c, email)

NextDirectory ==
  \/ SyncNamedReq
  \/ GetStatusReq
  \/ GetProfileReq
  \/ UpgradeReq
  \/ AdminSetRoleReq
  \/ AdminPromoteUserReq
  \/ ManagePromoteUserReq
  \/ AdminDeleteUserReq
  \/ ManageDeleteUserReq

SpecDirectory == Init /\ [][NextDirectory]_vars

\* ------------------------------------------------ accounts that change after a lesson is created
RenameReq == \E c \in Creds : UpdateProfile(c, [name |-> "Bo", photoURL |-> "p2"])
CreateReq == \E c \in Creds : AddLesson(c, [title |-> "t1", fullDescription |-> "f1"])

NextSnapshot ==
  \/ SyncNamedReq
  \/ RenameReq
  \/ UploadProfileReq
  \/ AdminSetRoleReq
  \/ CreateReq

SpecSnapshot == Init /\ [][NextSnapshot]_vars

\* ------------------------------------------------ the reporting endpoints between writes
\* Last value of the wall clock when more than a week passes at once.
MaxLater == 15

\* More than seven days pass between two requests.
WeekPasses ==
  /\ now + 15 <= MaxLater
  /\ now' = now + 15
  /\ UNCHANGED <<conn, posts, inflight, users, publicLessons, myLessons, nextId, res>>

PostReq == AddPost("u1", [text |-> "x1"])
OwnOverviewReq == \E c \in {"u1", NoCred} : Overview(c)
OwnLessonsReq == \E c \in {"u1", NoCred} : GetMyLessons(c)
TopContributorsAnyOrder == \E reversed \in BOOLEAN : TopContributors(reversed)

NextReports ==
  \/ SyncNamedReq
  \/ CreateReq
  \/ PostReq
  \/ WeekPasses
  \/ TopContributorsAnyOrder
  \/ OwnOverviewReq
  \/ CommunityStats
  \/ AdminDashboardStats
  \/ RecentUsers
  \/ AdminRecentLessons
  \/ ManageUsersTest
  \/ ManageLessons
  \/ GetLessons
  \/ GetPosts
  \/ OwnLessonsReq

SpecReports == Init /\ [][NextReports]_vars

\* ------------------------------------------- lesson writes, await by await
\* The writes to one lesson that may be in flight together: PUT and DELETE
\* /dashboard/my-lessons/:id by a verified caller, PATCH /admin/lessons/access/:id
\* with a valid level, DELETE /admin/lessons/:id.
LessonWrites ==
  UNION { { [op |-> "put", id |-> id, patch |-> UpdateData([title |-> "t2", accessLevel |-> "free"])],
            [op |-> "put", id |-> id, patch |-> UpdateData([title |-> "t3", accessLevel |-> "premium"])],
            [op |-> "access", id |-> id, patch |-> [accessLevel |-> "premium"]],
            [op |-> "access", id |-> id, patch |-> [accessLevel |-> "free"]],
            [op |-> "delete", id |-> id, patch |-> << >>],
            [op |-> "adminDelete", id |-> id, patch |-> << >>] } : id \in LessonIds }

\* The collections of the two awaited store calls of a write, in the order
\* the handler makes them.
WriteOrder(op) ==
  IF op \in {"put", "delete"} THEN <<"my-lessons", "public-lesson">>
  ELSE <<"public-lesson", "my-lessons">>

RouteOf(op) ==
  CASE op = "put" -> "PUT /dashboard/my-lessons/:id"
    [] op = "delete" -> "DELETE /dashboard/my-lessons/:id"
    [] op = "access" -> "PATCH /admin/lessons/access/:id"
    [] OTHER -> "DELETE /admin/lessons/:id"

\* updateOne with { upsert: true }: a document is inserted when none matches.
UpsertOne(coll, filter, patch) ==
  IF FirstIdx(coll, filter) = 0 THEN Append(coll, SetFields(filter, patch))
  ELSE UpdateOne(coll, filter, patch)

\* A store call of a write that upserts where the handler updates.
StoreCallUpserting(coll, q) ==
  IF q.op \in {"put", "access"} THEN UpsertOne(coll, [_id |-> q.id], q.patch)
  ELSE DeleteOne(coll, [_id |-> q.id])

\* One store call of a write on a collection: updateOne({ _id }, { $set })
\* or deleteOne({ _id }).
StoreCall(coll, q) ==
  IF q.op \in {"put", "access"} THEN UpdateOne(coll, [_id |-> q.id], q.patch)
  ELSE DeleteOne(coll, [_id |-> q.id])

\* The store call of write q on the collection named target.
WriteTo(target, q) ==
  IF target = "my-lessons"
  THEN /\ myLessons' = StoreCall(myLessons, q)
       /\ UNCHANGED publicLessons
  ELSE /\ publicLessons' = StoreCall(publicLessons, q)
       /\ UNCHANGED myLessons

\* The handler of a write up to the end of its first awaited store call.
WriteBegin(r, q) ==
  /\ inflight[r] = Idle
  /\ inflight' = [inflight EXCEPT ![r] = q]
  /\ WriteTo(WriteOrder(q.op)[1], q)
  /\ UNCHANGED <<conn, posts, users, nextId, now, res>>

\* The rest of the handler: the second store call and the response.
WriteFinish(r) ==
  /\ inflight[r] # Idle
  /\ WriteTo(WriteOrder(inflight[r].op)[2], inflight[r])
  /\ inflight' = [inflight EXCEPT ![r] = Idle]
  /\ res' = Response(RouteOf(inflight[r].op), 200)
  /\ UNCHANGED <<conn, posts, users, nextId, now>>

\* A caller writes to an id it has seen, one the store has handed out.
WriteBeginReq == \E r \in Slots, q \in LessonWrites : q.id < nextId /\ WriteBegin(r, q)
WriteFinishReq == \E r \in Slots : WriteFinish(r)

NextRace ==
  \/ CreateReq
  \/ WriteBeginReq
  \/ WriteFinishReq

SpecRace == Init /\ [][NextRace]_vars

\* ------------------------------------ GET /community-stats, await by await
\* What the k-th awaited query of the handler returns on a store:
\* countDocuments({ visibility: "public" }), countDocuments() on users,
\* $sum of favoritesCount, distinct("category").length.
StatsValue(k, us, lessons) ==
  CASE k = 1 -> Len(MatchPublic(lessons))
    [] k = 2 -> Len(us)
    [] k = 3 -> SumSeq(Column(lessons, "favoritesCount"))
    [] OTHER -> Cardinality({lessons[i].category : i \in 1..Len(lessons)})

\* The four values as one store state gives them.
StatsTuple(us, lessons) == [k \in 1..4 |-> StatsValue(k, us, lessons)]

\* A stats request starts; seen collects the tuple of every store state from
\* now to the response.
StatsBegin(r) ==
  /\ inflight[r].op \in {"idle", "statsDone"}
  /\ inflight' = [inflight EXCEPT ![r] =
       [op |-> "stats", got |-> << >>, seen |-> {StatsTuple(users, publicLessons)}]]
  /\ UNCHANGED <<conn, posts, users, publicLessons, myLessons, nextId, now, res>>

\* The next awaited query returns; after the fourth the handler sends the response.
StatsQuery(r) ==
  /\ inflight[r].op = "stats"
  /\ LET got == Append(inflight[r].got, StatsValue(Len(inflight[r].got) + 1, users, publicLessons))
     IN IF Len(got) < 4
        THEN /\ inflight' = [inflight EXCEPT ![r] = [@ EXCEPT !.got = got]]
             /\ UNCHANGED res
        ELSE /\ inflight' = [inflight EXCEPT ![r] =
                  [op |-> "statsDone", got |-> got, seen |-> inflight[r].seen]]
             /\ res' = Reply("GET /community-stats", 200,
                  [totalLessons |-> got[1], totalUsers |-> got[2],
                   totalFavorites |-> got[3], totalCategories |-> got[4]])
  /\ UNCHANGED <<conn, posts, users, publicLessons, myLessons, nextId, now>>

\* The stats requests in flight see the store a write leaves.
Seen(us, lessons) ==
  inflight' = [r \in Slots |->
     IF inflight[r].op = "stats"
     THEN [inflight[r] EXCEPT !.seen = @ \cup {StatsTuple(us, lessons)}]
     ELSE inflight[r]]

\* POST /dashboard/add-lesson of a public lesson while stats requests are in flight.
CreateDuringStats(c) ==
  /\ nextId <= MaxIds
  /\ LET lesson == SetFields(NewLesson(c, [title |-> "t1", fullDescription |-> "f1",
                                          visibility |-> "public", category |-> "c1"]),
                             [_id |-> nextId])
     IN /\ publicLessons' = Append(publicLessons, lesson)
        /\ myLessons' = Append(myLessons, lesson)
  /\ nextId' = nextId + 1
  /\ res' = Response("POST /dashboard/add-lesson", 200)
  /\ Seen(users, publicLessons')
  /\ UNCHANGED <<conn, posts, users, now>>

\* POST /users while stats requests are in flight.
SyncDuringStats(c) ==
  /\ Len(SyncedUsers(users, now, c, [name |-> "Al"])) <= MaxUsers
  /\ users' = SyncedUsers(users, now, c, [name |-> "Al"])
  /\ res' = Response("POST /users", 200)
  /\ Seen(users', publicLessons)
  /\ UNCHANGED <<conn, posts, publicLessons, myLessons, nextId, now>>

StatsBeginReq == \E r \in Slots : StatsBegin(r)
StatsQueryReq == \E r \in Slots : StatsQuery(r)
CreateDuringStatsReq == \E c \in Uids : CreateDuringStats(c)
SyncDuringStatsReq == \E c \in Uids : SyncDuringStats(c)

NextDuringStats ==
  \/ StatsBeginReq
  \/ StatsQueryReq
  \/ CreateDuringStatsReq
  \/ SyncDuringStatsReq

SpecDuringStats == Init /\ [][NextDuringStats]_vars

\* ------------------------------------------------ lesson drafts, complete or not
\* Request bodies of POST /dashboard/add-lesson: complete, title missing,
\* title empty, fullDescription missing, fullDescription empty.
DraftBodies ==
  { [title |-> "t1", fullDescription |-> "f1"],
    [fullDescription |-> "f1"],
    [title |-> "", fullDescription |-> "f1"],
    [title |-> "t1"],
    [title |-> "t1", fullDescription |-> ""] }

DraftReq == \E c \in Creds, body \in DraftBodies : AddLesson(c, body)
DraftFailingReq ==
  \E c \in Creds, body \in DraftBodies, failAt \in AddLessonCalls : AddLessonFailing(c, body, failAt)

NextDraft ==
  \/ SyncNamedReq
  \/ DraftReq
  \/ DraftFailingReq
  \/ GetLessons

SpecDraft == Init /\ [][NextDraft]_vars

\* ------------------------------------------- deletes among updates
\* One update of each kind and the two deletes, for every id.
DeleteAndUpdates ==
  {q \in LessonWrites : q.patch \in {UpdateData([title |-> "t2", accessLevel |-> "free"]),
                                      [accessLevel |-> "premium"], << >>}}

OwnerCreateReq == AddLesson("u1", [title |-> "t1", fullDescription |-> "f1"])
DeleteOrUpdateBeginReq ==
  \E r \in Slots, q \in DeleteAndUpdates : q.id < nextId /\ WriteBegin(r, q)

NextAbsent ==
  \/ OwnerCreateReq
  \/ DeleteOrUpdateBeginReq
  \/ WriteFinishReq

SpecAbsent == Init /\ [][NextAbsent]_vars

\* ------------------------------------------------ posts and the accounts of their authors
AddPostReq == \E c \in Creds, body \in PostBodies : AddPost(c, body)

NextPosts ==
  \/ SyncNamedReq
  \/ AdminDeleteUserReq
  \/ AddPostReq
  \/ GetPosts
  \/ Tick

SpecPosts == Init /\ [][NextPosts]_vars

\* ================================================================ claims
\* Each _id occurs at most once in a lesson collection.
UniqueIds(coll) == \A i, j \in 1..Len(coll) : coll[i]._id = coll[j]._id => i = j

\* C1: after any sequence of completed, non-failing lesson operations run one
\* at a time (create, owner delete, admin delete, update, set-access-level),
\* a lesson id is in the Public index iff it is in the Owner index: create
\* stores both copies under the same generated id, delete removes both.
C1_SameIdsInBothIndexes ==
  /\ Ids(publicLessons) = Ids(myLessons)
  /\ UniqueIds(publicLessons) /\ UniqueIds(myLessons)
  /\ \A id \in Ids(publicLessons) : id < nextId

\* A lesson was created under a generated id and a delete has removed both copies.
C1_Witness ==
  /\ nextId > 1
  /\ publicLessons = << >>
  /\ myLessons = << >>
  /\ res.status = 200

\* C2: after every successful lesson call run without interleaving (create,
\* PUT update, PATCH access level, delete), every lesson id present in either
\* index is present in both and its mutable fields (title, shortDescription,
\* fullDescription, category, emotionalTone, visibility, accessLevel, image)
\* are equal in the Public and the Owner copy.
C2_MutableFieldsEqual ==
  \A id \in Ids(publicLessons) \cup Ids(myLessons) :
    /\ id \in Ids(publicLessons) \cap Ids(myLessons)
    /\ \A f \in UpdateFields : Doc(publicLessons, id)[f] = Doc(myLessons, id)[f]

\* A lesson that a PUT has rewritten (image i2 comes from an update body only)
\* and whose access level a PATCH has set afterwards.
C2_Witness ==
  \E i \in 1..Len(publicLessons) :
    /\ publicLessons[i].image = "i2"
    /\ publicLessons[i].accessLevel = "free"
    /\ Doc(myLessons, publicLessons[i]._id).accessLevel = "free"

\* The ids present in exactly one of the two indexes.
Orphans(pub, own) == (Ids(pub) \ Ids(own)) \cup (Ids(own) \ Ids(pub))

\* C3: when the insert into the Owner index fails after the insert into the
\* Public index succeeded, the create that ends with the error response has
\* removed the public copy again: a failed create leaves no lesson that is
\* present in only one index.
C3_FailedCreateLeavesNoOrphan ==
  [][\A c \in Creds, body \in LessonBodies, failAt \in AddLessonCalls :
       AddLessonFailing(c, body, failAt)
         => Orphans(publicLessons', myLessons') \subseteq Orphans(publicLessons, myLessons)]_vars

\* The lessons of a collection whose creator snapshot email is not e.
LessonsOfOthers(coll, e) == SelectSeq(coll, LAMBDA d : d.creator.email # e)

\* C4: after a successful account delete for email e (either delete route,
\* answered 200, an Account removed) no lesson whose creator email is e
\* remains in the Public or the Owner index, and every lesson of another
\* creator is unchanged in both.
C4_CascadeDelete ==
  [][\A c \in Creds, e \in Emails :
       (/\ ManageDeleteUser(c, e) \/ AdminDeleteUser(c, e)
        /\ res'.status = 200
        /\ Len(users') < Len(users))
         => /\ LessonsOfOthers(publicLessons', e) = publicLessons'
            /\ LessonsOfOthers(myLessons', e) = myLessons'
            /\ publicLessons' = LessonsOfOthers(publicLessons, e)
            /\ myLessons' = LessonsOfOthers(myLessons, e)]_vars

\* C5: in every reachable state the User Directory holds at most one Account
\* per subject id and at most one per email, also when POST /users requests
\* for the same new subject id interleave between findOne and insertOne.
C5_OneAccountPerIdentity ==
  \A i, j \in 1..Len(users) :
    i # j => users[i].uid # users[j].uid /\ users[i].email # users[j].email

\* C6: POST /users called twice in a row with the same (subject id, email,
\* name) leaves exactly one Account for that subject id, and the second call
\* changes nothing: the store after it equals the store after the first.
C6_SyncIdempotent ==
  [][\A c \in Uids, body \in SyncBodies :
       SyncUser(c, body)
         => /\ Cardinality({i \in 1..Len(users') : users'[i].uid = c}) = 1
            /\ \A again \in SyncBodies :
                 Get(again, "name") = Get(body, "name")
                   => SyncedUsers(users', now', c, again) = users']_vars

\* The caller holds a verified token and the Account found for its email has role admin.
IsAdminCaller(c) == c # NoCred /\ ~NotAdmin(c)

\* C7: an administrative mutation (delete account, change a role, delete a
\* lesson by the admin route, set a lesson's access level) by a caller that
\* is not an authenticated Account with role admin is answered 401 or 403
\* and leaves the store unchanged.
C7_AdminMutationsNeedAdmin ==
  [][\A c \in Creds, e \in Emails, id \in LessonIds, rb \in RoleBodies, ab \in AccessBodies :
       (/\ ~IsAdminCaller(c)
        /\ \/ ManageDeleteUser(c, e)
           \/ ManagePromoteUser(c, e)
           \/ AdminDeleteUser(c, e)
           \/ AdminPromoteUser(c, e, rb)
           \/ AdminSetRole(c, e, rb)
           \/ AdminDeleteLesson(c, id)
           \/ AdminSetAccess(c, id, ab))
         => /\ res'.status \in {401, 403}
            /\ UNCHANGED store]_vars

\* C8: PATCH /users/upgrade/:email is open to administrators only and changes
\* nothing but role and isPremium of the target Account: every other field
\* keeps its value and no field is added, whatever the request body is.
C8_UpgradeAllowList ==
  [][\A c \in Creds, e \in Emails, body \in UpgradeBodies :
       Upgrade(c, e, body)
         => /\ ~IsAdminCaller(c) => UNCHANGED users
            /\ Len(users') = Len(users)
            /\ \A i \in 1..Len(users) :
                 /\ DOMAIN users'[i] = DOMAIN users[i]
                 /\ \A f \in DOMAIN users[i] \ {"role", "isPremium"} :
                      users'[i][f] = users[i][f]]_vars

\* C9: a profile update (PUT /users/update-profile, POST /users/upload-profile)
\* changes only the Account of the authenticated caller: every Account of a
\* different subject id is unchanged.
C9_ProfileUpdateOwnAccountOnly ==
  [][\A c \in Creds, body \in ProfileBodies, hasFile \in BOOLEAN :
       (UpdateProfile(c, body) \/ UploadProfile(c, hasFile))
         => /\ Len(users') = Len(users)
            /\ \A i \in 1..Len(users) :
                 users[i].uid # c => users'[i] = users[i]]_vars

\* C10: POST /users creates a missing Account with role user and isPremium
\* false whatever the body contains; on an existing Account it never changes
\* role or isPremium (nor any field but name and avatar), and it changes
\* name/avatar only when the stored name is "Anonymous" and a non-empty name
\* is supplied.
C10_SyncKeepsRoleAndPremium ==
  [][(res'.route = "POST /users" /\ res'.status = 200) =>
       \A c \in Uids, body \in SyncBodies :
         SyncUser(c, body)
           => IF \A i \in 1..Len(users) : users[i].uid # c
              THEN /\ Len(users') = Len(users) + 1
                   /\ SubSeq(users', 1, Len(users)) = users
                   /\ users'[Len(users')].uid = c
                   /\ users'[Len(users')].role = "user"
                   /\ users'[Len(users')].isPremium = FALSE
              ELSE /\ Len(users') = Len(users)
                   /\ \A i \in 1..Len(users) :
                        /\ \A f \in DOMAIN users[i] \ {"name", "photoURL"} :
                             users'[i][f] = users[i][f]
                        /\ DOMAIN users'[i] = DOMAIN users[i]
                        /\ users'[i] # users[i]
                             => /\ users[i].uid = c
                                /\ users[i].name = "Anonymous"
                                /\ Truthy(Get(body, "name"))]_vars

\* An Account that a sync created from a body carrying role admin and
\* isPremium true (the only source of avatar p2) and that a later sync renamed.
C10_Witness ==
  \E i \in 1..Len(users) :
    /\ users[i].name = "Al"
    /\ users[i].photoURL = "p2"
    /\ users[i].role = "user"
    /\ users[i].isPremium = FALSE
    /\ res.status = 200

\* In coll' every document with _id id has accessLevel lvl and every other
\* document is the one coll holds at the same place.
AccessSetTo(coll, collAfter, id, lvl) ==
  /\ Len(collAfter) = Len(coll)
  /\ \A i \in 1..Len(coll) :
       IF coll[i]._id = id
       THEN collAfter[i] = SetFields(coll[i], [accessLevel |-> lvl])
       ELSE collAfter[i] = coll[i]

\* C11: PATCH /admin/lessons/access/:id with a level other than "free" or
\* "premium" (a missing level included) is answered 400 and leaves both
\* indexes unchanged; with "free" or "premium" it is answered 200 and the
\* lesson then has that accessLevel in the Public and in the Owner index.
C11_AccessLevelValidated ==
  [][res'.route = "PATCH /admin/lessons/access/:id" =>
       \A id \in LessonIds, body \in AccessBodies :
         AdminSetAccess(NoCred, id, body)
           => IF Get(body, "accessLevel") \in {"free", "premium"}
              THEN /\ res'.status = 200
                   /\ AccessSetTo(publicLessons, publicLessons', id, body.accessLevel)
                   /\ AccessSetTo(myLessons, myLessons', id, body.accessLevel)
              ELSE /\ res'.status = 400
                   /\ UNCHANGED <<publicLessons, myLessons>>]_vars

\* A lesson created free with image i1 that the PATCH has just made premium
\* in both indexes (no create or PUT body pairs image i1 with premium).
C11_Witness ==
  /\ res = Response("PATCH /admin/lessons/access/:id", 200)
  /\ \E i \in 1..Len(publicLessons) :
       /\ publicLessons[i].image = "i1"
       /\ publicLessons[i].accessLevel = "premium"
       /\ Doc(myLessons, publicLessons[i]._id).accessLevel = "premium"

\* The fields of a lesson that PUT /dashboard/my-lessons/:id must not touch.
Untouched(doc) == [f \in DOMAIN doc \ UpdateFields |-> doc[f]]

\* C12: PUT /dashboard/my-lessons/:id changes nothing but title,
\* shortDescription, fullDescription, category, emotionalTone, visibility,
\* accessLevel and image: whatever the body, likesCount, favoritesCount,
\* comments, favoritedBy, the creator snapshot, createdAt and isReported of
\* every lesson keep their value (and are not added) in both indexes.
C12_UpdateAllowList ==
  [][res'.route = "PUT /dashboard/my-lessons/:id" =>
       \/ /\ Len(publicLessons') = Len(publicLessons)
          /\ Len(myLessons') = Len(myLessons)
          /\ \A i \in 1..Len(publicLessons) :
               Untouched(publicLessons'[i]) = Untouched(publicLessons[i])
          /\ \A i \in 1..Len(myLessons) :
               Untouched(myLessons'[i]) = Untouched(myLessons[i])
       \/ ~ \E c \in Creds, id \in LessonIds, body \in LessonBodies :
              UpdateMyLesson(c, id, body)]_vars

\* A PUT whose body carried likesCount 9 has rewritten a lesson (image i2
\* comes from that body only) and the lesson's likesCount is still 0.
C12_Witness ==
  /\ res = Response("PUT /dashboard/my-lessons/:id", 200)
  /\ \E i \in 1..Len(publicLessons) :
       /\ publicLessons[i].image = "i2"
       /\ publicLessons[i].likesCount = 0
       /\ Doc(myLessons, publicLessons[i]._id).likesCount = 0

\* The places of the Public index that hold a public lesson of creator name n.
PublicOf(n) ==
  {i \in 1..Len(publicLessons) :
     publicLessons[i].visibility = "public" /\ publicLessons[i].creator.name = n}

RECURSIVE SumAt(_, _)
\* The sum of field f over the places idx of the Public index.
SumAt(idx, f) ==
  IF idx = {} THEN 0
  ELSE LET i == CHOOSE i \in idx : TRUE
       IN publicLessons[i][f] + SumAt(idx \ {i}, f)

\* The score the specification gives the creator name n.
ScoreOf(n) ==
  5 * Cardinality(PublicOf(n)) + SumAt(PublicOf(n), "likesCount")
    + 2 * SumAt(PublicOf(n), "favoritesCount")

\* The last response is the body of GET /top-contributors.
TopAnswered == res.route = "GET /top-contributors" /\ res.status = 200

\* C13: every row of GET /top-contributors has score = 5 * (number of public
\* lessons with that creator name) + (sum of their likesCount) + 2 * (sum of
\* their favoritesCount), over the Public index as it is at the call.
C13_ScoreFormula ==
  TopAnswered => \A k \in 1..Len(res.body) : res.body[k].score = ScoreOf(res.body[k]._id)

\* A row over two public lessons with 1 like and 2 favorites in all: 5*2 + 1 + 2*2.
C13_Witness ==
  /\ TopAnswered
  /\ \E k \in 1..Len(res.body) :
       /\ res.body[k].totalLessons = 2
       /\ res.body[k].totalLikes = 1
       /\ res.body[k].totalFavorites = 2
       /\ res.body[k].score = 15

\* The creator names that have a public lesson.
PublicNames ==
  {publicLessons[i].creator.name : i \in {j \in 1..Len(publicLessons) : publicLessons[j].visibility = "public"}}

\* C14: GET /top-contributors returns at most 7 rows, one per distinct
\* creator name; lessons that are not public add to no row's lesson count,
\* likes sum, favorites sum or avatar, and a creator with private lessons
\* only has no row.
C14_TopSevenPublicOnly ==
  TopAnswered =>
    /\ Len(res.body) <= 7
    /\ \A k, l \in 1..Len(res.body) : res.body[k]._id = res.body[l]._id => k = l
    /\ \A k \in 1..Len(res.body) :
         LET row == res.body[k]
         IN /\ row._id \in PublicNames
            /\ row.totalLessons = Cardinality(PublicOf(row._id))
            /\ row.totalLikes = SumAt(PublicOf(row._id), "likesCount")
            /\ row.totalFavorites = SumAt(PublicOf(row._id), "favoritesCount")
            /\ \E i \in PublicOf(row._id) : row.photo = publicLessons[i].creator.photo

\* Eight creators have public lessons, seven rows are returned, and one of
\* the rows is of a creator who also has a private lesson with 9 likes.
C14_Witness ==
  /\ TopAnswered
  /\ Cardinality(PublicNames) = 8
  /\ Len(res.body) = 7
  /\ \E k \in 1..Len(res.body), i \in 1..Len(publicLessons) :
       /\ publicLessons[i].visibility = "private"
       /\ publicLessons[i].creator.name = res.body[k]._id
       /\ res.body[k].totalLikes = 0

\* The creator names of the returned rows.
Returned == {res.body[k]._id : k \in 1..Len(res.body)}

\* C15: the rows of GET /top-contributors come in non-increasing score, no
\* omitted creator-name group has a score above that of a returned one, and
\* with 7 or fewer groups every group is returned.
C15_SortedTopGroups ==
  TopAnswered =>
    /\ \A k \in 1..(Len(res.body) - 1) : res.body[k].score >= res.body[k + 1].score
    /\ Returned \subseteq PublicNames
    /\ \A n \in PublicNames \ Returned : \A m \in Returned : ScoreOf(n) <= ScoreOf(m)
    /\ Cardinality(PublicNames) <= 7 => Returned = PublicNames

\* Eight groups of which one is cut off, the first row scoring above the last.
C15_Witness ==
  /\ TopAnswered
  /\ Cardinality(PublicNames \ Returned) = 1
  /\ Len(res.body) = 7
  /\ res.body[1].score > res.body[7].score

\* The number of lessons of email e in the Public index created at or after
\* the instant 7 days before t on weekday w.
CreatedInWeek(e, t, w) ==
  Cardinality({i \in 1..Len(publicLessons) :
                 /\ publicLessons[i].creator.email = e
                 /\ publicLessons[i].createdAt >= t - 14
                 /\ DayOfWeek(publicLessons[i].createdAt) = w})

\* C16: the weekly histogram of GET /dashboard/overview for owner o has, for
\* each weekday index w, a row whose count is the number of o's lessons
\* created within the trailing 7 days whose creation weekday is w, no row for
\* a weekday without such a lesson, counts no lesson of another owner or
\* older than 7 days, and is sorted ascending by weekday index.
C16_WeeklyHistogram ==
  [][(res'.route = "GET /dashboard/overview" /\ res'.status = 200) =>
       \A c \in Uids :
         Overview(c)
           => LET rows == res'.body.weeklyStats
              IN /\ \A k \in 1..(Len(rows) - 1) : rows[k]._id < rows[k + 1]._id
                 /\ \A k \in 1..Len(rows) :
                      /\ rows[k]._id \in 1..7
                      /\ rows[k].count > 0
                      /\ rows[k].count = CreatedInWeek(EmailOf[c], now, rows[k]._id)
                 /\ \A w \in 1..7 :
                      CreatedInWeek(EmailOf[c], now, w) > 0
                        => \E k \in 1..Len(rows) : rows[k]._id = w]_vars

\* Lessons created 1 day, 1 day and 3 days before the call, all of the
\* caller: two rows, in weekday order, with counts 1 and 2.
C16_Witness ==
  /\ res.route = "GET /dashboard/overview" /\ res.status = 200
  /\ now = 40
  /\ \A i \in 1..Len(publicLessons) : publicLessons[i].creator.email = "a@x"
  /\ {publicLessons[i].createdAt : i \in 1..Len(publicLessons)} = {38, 34}
  /\ res.body.weeklyStats = <<[_id |-> 1, count |-> 1], [_id |-> 3, count |-> 2]>>

\* C17: GET /dashboard/overview for owner o returns totalLessons = number of
\* lessons whose creator email is o's, totalFavorites = number of lessons
\* whose favoritedBy holds o's email, recentLessons = the at most 5 latest of
\* o's lessons, newest first; and the counts agree with what GET
\* /dashboard/my-lessons lists for o from the Owner index.
C17_OverviewCounts ==
  [][(res'.route = "GET /dashboard/overview" /\ res'.status = 200) =>
       \A c \in Uids :
         Overview(c)
           => LET e == EmailOf[c]
                  mine == {i \in 1..Len(publicLessons) : publicLessons[i].creator.email = e}
                  recent == res'.body.recentLessons
                  recentIds == {recent[k]._id : k \in 1..Len(recent)}
                  listed == SortByCreatedDesc(LessonsOf(myLessons, e))
              IN /\ res'.body.totalLessons = Cardinality(mine)
                 /\ res'.body.totalFavorites =
                      Cardinality({i \in 1..Len(publicLessons) : FavoritedBy(publicLessons[i], e)})
                 /\ Len(recent) = IF Cardinality(mine) < 5 THEN Cardinality(mine) ELSE 5
                 /\ \A k \in 1..(Len(recent) - 1) : recent[k].createdAt >= recent[k + 1].createdAt
                 /\ recentIds \subseteq {publicLessons[i]._id : i \in mine}
                 /\ \A i \in mine : publicLessons[i]._id \notin recentIds
                      => \A k \in 1..Len(recent) : publicLessons[i].createdAt <= recent[k].createdAt
                 /\ res'.body.totalLessons = Len(listed)
                 /\ recentIds \subseteq {listed[k]._id : k \in 1..Len(listed)}]_vars

\* The places of the Public index.
AllLessons == 1..Len(publicLessons)

\* C18: GET /community-stats returns totalLessons = number of lessons with
\* visibility public, totalUsers = number of Accounts, totalFavorites = sum
\* of favoritesCount over all lessons whatever their visibility (0 without
\* lessons), totalCategories = number of distinct category values.
C18_CommunityStats ==
  res.route = "GET /community-stats" =>
    /\ res.status = 200
    /\ res.body.totalLessons =
         Cardinality({i \in AllLessons : publicLessons[i].visibility = "public"})
    /\ res.body.totalUsers = Len(users)
    /\ res.body.totalFavorites = SumAt(AllLessons, "favoritesCount")
    /\ publicLessons = << >> => res.body.totalFavorites = 0
    /\ res.body.totalCategories =
         Cardinality({cat \in {"c1", "c2", NULL} :
                        \E i \in AllLessons : publicLessons[i].category = cat})

\* One public and two private lessons with two favorites each, in two
\* categories, and two Accounts.
C18_Witness ==
  /\ res.route = "GET /community-stats"
  /\ res.body.totalLessons = 1
  /\ res.body.totalFavorites = 6
  /\ res.body.totalCategories = 2
  /\ res.body.totalUsers = 2

\* C19: the collection handles are initialized at most once per process:
\* whatever the interleaving of first requests in connectDB and of start(),
\* the connect-and-assign sequence runs at most once.
C19_ConnectOnce == conn.assigned <= 1

\* A request is between its arrival and its response.
Pending(r) == inflight[r].op \in {"connectDB", "connecting", "handler"}

\* C20: every request is eventually answered, and a request that met a
\* failure of the store or of a collaborator, the connection step included,
\* is answered with status 500.
C20_EveryRequestAnswered ==
  /\ \A r \in Slots : Pending(r) ~> (inflight[r].op = "answered")
  /\ [](\A r \in Slots :
         (inflight[r].op = "answered" /\ inflight[r].failed) => inflight[r].status = 500)


\* C21: a request to a route behind verifyFirebaseToken that carries no
\* Authorization header, a header without the "Bearer " prefix, or a token
\* Firebase rejects is answered 401 and no collection is modified.
RejectedHeaders == { << >>, <<"Basic", "u1">>, <<"Bearer", "bad">> }

C21_BadTokenAnswered401 ==
  [][LET rejected == {VerifyFirebaseToken(h) : h \in RejectedHeaders}
     IN \A c \in rejected :
          GuardedRoute(c) =>
            /\ res'.status = 401
            /\ UNCHANGED <<store, posts, nextId>>]_vars

\* A rejected request arrives while the collections hold an account, a
\* lesson and a post it could have changed.
C21_Witness ==
  /\ res.status = 401
  /\ Len(users) > 0 /\ Len(publicLessons) > 0 /\ Len(posts) > 0
  /\ \E i \in 1..Len(users) : users[i].role = "admin"

\* C22: a User Directory operation (status lookup, profile lookup, role
\* change, premium upgrade, account delete) that targets an email no Account
\* has answers 404 and leaves the store unchanged. The caller is one the
\* route lets through and the body has what the route validates.
TargetsEmail(email) ==
  \/ \E c \in Uids : GetStatus(c, email) \/ GetProfile(c, email)
  \/ \E body \in UpgradeBodies : Upgrade(NoCred, email, body)
  \/ \E body \in RoleBodies : Truthy(Get(body, "role")) /\ AdminSetRole(NoCred, email, body)
  \/ \E body \in RoleBodies : AdminPromoteUser(NoCred, email, body)
  \/ \E c \in Uids : IsAdminCaller(c) /\ ManagePromoteUser(c, email)
  \/ AdminDeleteUser(NoCred, email)
  \/ \E c \in Uids : IsAdminCaller(c) /\ ManageDeleteUser(c, email)

C22_MissingAccountReports404 ==
  [][\A email \in Emails :
       (FirstIdx(users, [email |-> email]) = 0 /\ TargetsEmail(email))
         => (res'.status = 404 /\ UNCHANGED store)]_vars

\* The creator snapshots of a lesson index, by position.
Creators(coll) == [k \in 1..Len(coll) |-> <<coll[k]._id, coll[k].creator>>]

AccountRoutes ==
  { "POST /users", "PUT /users/update-profile", "POST /users/upload-profile",
    "PATCH /admin/users/role/:email" }

\* C23: the creator snapshot of a lesson is taken at creation (name and
\* avatar from the caller's Account, Anonymous and no avatar without one,
\* email and uid from the token) and a later profile update, sync or role
\* change leaves the snapshot of every lesson unchanged in both indexes.
C23_CreatorSnapshotFixed ==
  [][/\ (res'.route = "POST /dashboard/add-lesson" /\ res'.status = 200) =>
          \A c \in Uids :
            AddLesson(c, [title |-> "t1", fullDescription |-> "f1"]) =>
              LET i == FirstIdx(users, [email |-> EmailOf[c]])
                  snapshot == [name |-> IF i = 0 \/ users[i].name \in {"", NULL}
                                        THEN "Anonymous" ELSE users[i].name,
                               email |-> EmailOf[c],
                               uid |-> c,
                               photo |-> IF i = 0 \/ users[i].photoURL \in {"", NULL}
                                         THEN "" ELSE users[i].photoURL]
              IN /\ publicLessons'[Len(publicLessons')].creator = snapshot
                 /\ myLessons'[Len(myLessons')].creator = snapshot
     /\ res'.route \in AccountRoutes =>
          /\ Creators(publicLessons') = Creators(publicLessons)
          /\ Creators(myLessons') = Creators(myLessons)]_vars

\* A profile update has given the creator of a lesson a new name and avatar
\* while the lesson still shows the ones of the day it was created.
C23_Witness ==
  /\ res = Response("PUT /users/update-profile", 200)
  /\ \E k \in 1..Len(publicLessons), i \in 1..Len(users) :
       /\ users[i].email = publicLessons[k].creator.email
       /\ users[i].name = "Bo" /\ users[i].photoURL = "p2"
       /\ publicLessons[k].creator.name = "Al"
       /\ myLessons[k].creator = publicLessons[k].creator

ReportRoutes ==
  { "GET /top-contributors", "GET /dashboard/overview", "GET /community-stats",
    "GET /admin/dashboard-stats", "GET /admin/recent-users", "GET /admin/recent-lessons",
    "GET /admin/manage-users-test", "GET /admin/manage-lessons", "GET /lessons",
    "GET /posts", "GET /dashboard/my-lessons" }

\* The counts and sums of a report that do not look at the clock: the rows
\* of the contributors, the totals of the stats, the length of a listing.
SteadyCounts(r) ==
  IF r.route = "GET /top-contributors" THEN {r.body[k] : k \in 1..Len(r.body)}
  ELSE IF r.route = "GET /dashboard/overview"
  THEN <<r.body.totalLessons, r.body.totalFavorites, Len(r.body.recentLessons)>>
  ELSE IF r.route = "GET /community-stats" THEN r.body
  ELSE IF r.route = "GET /admin/dashboard-stats"
  THEN <<r.body.totalUsers, r.body.totalLessons, r.body.reportedLessons>>
  ELSE Len(r.body)

\* The counts of the trailing seven days.
WeekCounts(r) ==
  IF r.route = "GET /dashboard/overview" THEN r.body.weeklyStats
  ELSE IF r.route = "GET /admin/dashboard-stats" THEN r.body.weeklyGrowth
  ELSE << >>

\* The last two responses are two calls of one reporting endpoint with no
\* other request in between.
CalledTwice ==
  /\ res.route = res'.route
  /\ res.status = 200 /\ res'.status = 200

AllWritesDone == \A r \in Slots : inflight[r] = Idle

\* C25: for every interleaving of two writes to one lesson id (two PUT, or a
\* PUT with a PATCH of the access level), once both requests have completed
\* the copy in public-lesson and the copy in my-lessons have the same
\* mutable fields.
C25_CopiesAgreeAfterWrites ==
  AllWritesDone =>
    \A id \in Ids(publicLessons) \cap Ids(myLessons) :
      \A f \in UpdateFields :
        Doc(publicLessons, id)[f] = Doc(myLessons, id)[f]

\* C26: PUT and DELETE /dashboard/my-lessons/:id by an authenticated caller
\* that is neither the creator of the lesson nor an admin are rejected and
\* leave the lesson unchanged in both indexes.
C26_OnlyOwnerWritesLesson ==
  [][\A c \in Uids, id \in LessonIds :
       ( /\ id \in Ids(myLessons)
         /\ Doc(myLessons, id).creator.email # EmailOf[c]
         /\ ~IsAdminCaller(c)
         /\ \/ DeleteMyLesson(c, id)
            \/ \E body \in LessonBodies : UpdateMyLesson(c, id, body) )
       => /\ res'.status \in {401, 403, 404}
          /\ UNCHANGED <<publicLessons, myLessons>>]_vars

\* C27: the counts and sums of one stats response are the values of one
\* store state that existed between the start of the request and its
\* response, also when writes come between the handler's queries.
C27_StatsOfOneState ==
  \A r \in Slots :
    inflight[r].op = "statsDone" => inflight[r].got \in inflight[r].seen

\* A draft whose title or fullDescription is missing or empty.
Incomplete(body) ==
  \/ "title" \notin DOMAIN body \/ "fullDescription" \notin DOMAIN body
  \/ body.title = "" \/ body.fullDescription = ""

\* C28: a create request whose title or fullDescription is missing or empty
\* is answered 400 before any store call, whether or not the store would
\* fail: nothing is inserted and the number of lessons is unchanged.
C28_IncompleteDraftRejected ==
  [][res'.route = "POST /dashboard/add-lesson" =>
       \A c \in Uids, body \in DraftBodies :
         ( /\ Incomplete(body)
           /\ \/ AddLesson(c, body)
              \/ \E failAt \in AddLessonCalls : AddLessonFailing(c, body, failAt) )
         => /\ res'.status = 400
            /\ UNCHANGED <<publicLessons, myLessons, nextId>>]_vars

\* An incomplete draft is rejected while an account and a lesson exist.
C28_Witness ==
  /\ res = Response("POST /dashboard/add-lesson", 400)
  /\ Len(users) > 0
  /\ Len(publicLessons) = 1 /\ Len(myLessons) = 1

\* C29: an update never creates a lesson. No step other than a create
\* brings an absent id into an index, PUT and PATCH of the access level on
\* an absent id included, and when a delete completes its id is absent from
\* both indexes: however a delete interleaves with updates of the same id,
\* the id is absent from both once they have completed.
C29_UpdateNeverCreates ==
  [][/\ nextId' = nextId =>
          /\ Ids(publicLessons') \subseteq Ids(publicLessons)
          /\ Ids(myLessons') \subseteq Ids(myLessons)
     /\ \A r \in Slots :
          (inflight[r].op \in {"delete", "adminDelete"} /\ WriteFinish(r))
            => inflight[r].id \notin Ids(publicLessons') \cup Ids(myLessons')]_vars

\* A delete has completed while an update of the same lesson is between its
\* two store calls, and the lesson is in neither index.
C29_Witness ==
  /\ res.route \in {"DELETE /dashboard/my-lessons/:id", "DELETE /admin/lessons/:id"}
  /\ nextId > 1
  /\ \E r \in Slots : inflight[r].op \in {"put", "access"} /\ inflight[r].id = 1
  /\ 1 \notin Ids(publicLessons) \cup Ids(myLessons)

\* C30: a stored post carries the email of the verified caller as
\* authorEmail and the server's time as createdAt, whatever authorEmail and
\* createdAt the request body has, and no operation changes or deletes a
\* stored post: the collection only grows, by such a post at its end.
C30_PostsStampedAndKept ==
  [][\/ posts' = posts
     \/ \E c \in Uids, body \in PostBodies :
          /\ AddPost(c, body)
          /\ SubSeq(posts', 1, Len(posts)) = posts
          /\ LET post == posts'[Len(posts')]
             IN /\ Len(posts') = Len(posts) + 1
                /\ post.authorEmail = EmailOf[c]
                /\ post.createdAt = now
                /\ post.text = body.text]_vars

\* A post whose body named another author and another time is stored under
\* the caller's email and the server's time, and is still there after the
\* account of its author was deleted.
C30_Witness ==
  /\ \E i \in 1..Len(posts) :
       /\ posts[i].text = "x2"
       /\ posts[i].authorEmail = "a@x"
       /\ posts[i].createdAt = 1
  /\ res.route = "DELETE /admin/users/:email"
  /\ FirstIdx(users, [email |-> "a@x"]) = 0
====
